---- MODULE Spec2Model ----
(***************************************************************************)
(* State-machine model of src/src/connection.rs: the Connection trait and  *)
(* its backends.  Texts are sequences of byte values (ASCII), so that the  *)
(* framing of the stream backend is computed on bytes as the code does.    *)
(***************************************************************************)
EXTENDS Integers, Sequences, FiniteSets, TLC

(***************************************************************************)
(* Bytes and texts                                                         *)
(***************************************************************************)
NUL == 0
CR == 13
LF == 10

\* The size of the read buffer in TcpConnection::wait_for_message.
BufSize == 512

\* TcpConnectionDelimiter::EndOfMessage.to_string()
EndOfMessage == <<CR, LF>>

\* "make_move e2e4" and "make_move e7e5" as ASCII bytes.
MakeMoveE2E4 == <<109, 97, 107, 101, 95, 109, 111, 118, 101, 32, 101, 50, 101, 52>>
MakeMoveE7E5 == <<109, 97, 107, 101, 95, 109, 111, 118, 101, 32, 101, 55, 101, 53>>

\* Bounds of the stream model: calls of send_message and of
\* wait_for_message, reads per call, and the bytes handed to send_message
\* in all (delimiters included) when short texts are sent.
MaxSends == 2
MaxWaits == 2
MaxReads == 3
MaxStreamBytes == 6

Min(a, b) == IF a < b THEN a ELSE b

\* The null byte, the two delimiter bytes and the ordinary character 'a'.
Alphabet == {NUL, CR, LF, 97}

\* The texts handed to TcpConnection::send_message: the empty text and the
\* one-byte texts over the alphabet, or one of the two move messages.
ShortTexts == {<<>>} \cup {<<c>> : c \in Alphabet}
MoveTexts == {MakeMoveE2E4, MakeMoveE7E5}

\* The bytes of one framed move message.
MoveBytes == Len(MakeMoveE2E4) + Len(EndOfMessage)

\* str::contains(pat)
StartsWith(s, pat) ==
  /\ Len(s) >= Len(pat)
  /\ \A i \in 1..Len(pat) : s[i] = pat[i]
Contains(s, pat) ==
  \E i \in 0..(Len(s) - Len(pat)) : \A j \in 1..Len(pat) : s[i + j] = pat[j]

\* str::replace(c, "") for a char pattern: every occurrence of c is dropped.
ReplaceChar(s, c) == SelectSeq(s, LAMBDA b : b # c)

\* str::replace(pat, "") for a non-empty str pattern: one left-to-right scan
\* that drops each non-overlapping match and resumes after it.
RECURSIVE ReplaceStr(_, _)
ReplaceStr(s, pat) ==
  IF Len(s) = 0 THEN <<>>
  ELSE IF StartsWith(s, pat)
       THEN ReplaceStr(SubSeq(s, Len(pat) + 1, Len(s)), pat)
       ELSE <<Head(s)>> \o ReplaceStr(Tail(s), pat)

\* Lines 170-172: message.replace('\0', "").replace("\r\n", "")
Strip(message) == ReplaceStr(ReplaceChar(message, NUL), EndOfMessage)

\* let mut buffer = [0u8; 512] after a read that stored `data` at its front.
Zeros(n) == [i \in 1..n |-> NUL]
FillBuffer(data) == data \o Zeros(BufSize - Len(data))

(***************************************************************************)
(* Relay payloads, names and responses                                     *)
(***************************************************************************)
\* const RETRY_ATTEMPTS_HTTP: i32 = 5
RETRY_ATTEMPTS_HTTP == 5

\* Bounds of the relay model.
MaxHttpWaits == 3
MaxPolls == 6
MaxPeerSends == 2

\* Client names known to the relay, and the texts the clients publish.
Names == {"one", "two"}
HttpTexts == {"", "a", "b"}

\* The relay holds no client of that name.
NoClient == "<no client>"

\* format!("hello {}", client_name)
Hello(client_name) == "hello " \o client_name

\* Response bodies: not JSON at all, JSON without nextMessage.message, and
\* the JSON of a client whose nextMessage.message is p.
NotJson == [json |-> FALSE, has_message |-> FALSE, message |-> ""]
NoMessageBody == [json |-> TRUE, has_message |-> FALSE, message |-> ""]
ClientBody(p) == [json |-> TRUE, has_message |-> TRUE, message |-> p]

NoResponse == [status |-> 0, body |-> NotJson]

\* What GET {endpoint}/clients/{other_player} can answer while the relay
\* holds `held` for that client: the client's JSON, or a body that is no
\* client JSON, a client-error status, or a server-error status with any body.
PollResponses(held) ==
  {[status |-> 200,
    body |-> IF held = NoClient THEN NoMessageBody ELSE ClientBody(held)],
   [status |-> 200, body |-> NotJson],
   [status |-> 404, body |-> NotJson]}
  \cup {[status |-> 404, body |-> ClientBody(p)] : p \in HttpTexts}
  \cup {[status |-> 500, body |-> b] :
          b \in {NotJson, NoMessageBody} \cup {ClientBody(p) : p \in HttpTexts}}

\* A status test that takes no status for a client error.
IsClientErrorNever(status) == FALSE

\* reqwest::StatusCode::is_server_error / is_client_error
IsServerError(status) == status \in 500..599
IsClientError(status) == status \in 400..499

(***************************************************************************)
(* EchoConnection: calls and arguments                                     *)
(***************************************************************************)
MaxEchoCalls == 3

\* The texts handed to EchoConnection::send_message.
EchoTexts == {<<>>, <<97>>} \cup MoveTexts

\* "Nothing" as ASCII bytes.
NothingText == <<78, 111, 116, 104, 105, 110, 103>>

(***************************************************************************)
(* Operator input of the local stand-in: texts as sequences of code points *)
(***************************************************************************)
MaxInputLen == 5
MaxSelfCalls == 1

\* 'e', 'x', 'i', 't' and U+00E9 (two bytes in UTF-8).
SelfChars == {101, 120, 105, 116, 233}
SelfInputs == UNION {[1..n -> SelfChars] : n \in 0..MaxInputLen}

\* char::len_utf8
Utf8Len(c) == IF c < 128 THEN 1 ELSE IF c < 2048 THEN 2 ELSE IF c < 65536 THEN 3 ELSE 4

\* String::len: the length in bytes of the UTF-8 encoding.
RECURSIVE StrLen(_)
StrLen(s) == IF s = <<>> THEN 0 ELSE Utf8Len(Head(s)) + StrLen(Tail(s))

\* "exit"
ExitText == <<101, 120, 105, 116>>

\* Display of protocol::Message, one verb per variant.
MessageText(m) ==
  CASE m = "Bye" -> <<98, 121, 101>>
    [] m = "BadMessage" -> <<98, 97, 100, 95, 109, 101, 115, 115, 97, 103, 101>>
    [] m = "MakeMove" -> <<109, 97, 107, 101, 95, 109, 111, 118, 101>>

(***************************************************************************)
(* State                                                                   *)
(***************************************************************************)
VARIABLES
  wire,         \* bytes written by A's stream and not yet read by B
  closed,       \* A's end of the stream is closed
  sent,         \* A's send_message calls: text, bytes accepted, result
  tcp_pc,       \* B's position: "idle", "loop", "panicked"
  message,      \* the accumulation buffer of B's current/last call
  buffer0,      \* buffer[0] of the last read of B's current/last call
  nreads,       \* reads done by B's current/last call
  ncalls,       \* wait_for_message calls begun by B
  tcp_returns   \* the values B's wait_for_message calls returned, in order

VARIABLES
  relay,            \* the relay server: client name -> its nextMessage.message
  h_pc,             \* "unjoined", "failed", "idle", "poll", "sleep", "panicked"
  h_name,           \* HttpConnection.name
  h_other,          \* HttpConnection.other_player
  previous_message, \* HttpConnection.previous_message
  attempts,         \* the local `attempts` of wait_for_message
  h_polls,          \* polls issued by the current/last wait_for_message call
  response,         \* the response of the last poll
  h_returns,        \* the values wait_for_message returned, in order
  h_send,           \* the result of the last send_message call, "none" before
  h_fault,          \* the fault the connection met: "none", "send", "poll", ...
  h_get             \* the result of the last get_message call, "none" before

\* The history of the peer's publications, kept beside the relay's state.
VARIABLES
  pub_log,          \* the texts of the peer's logged send_message calls
  relay_pub,        \* client name -> index in pub_log of the payload held, or 0
  skipped,          \* publications replaced by the next with no poll between
  fresh,            \* no poll was made since the peer's last publication
  h_return_pub      \* for each return: the publication it carried, or 0

VARIABLES
  self_calls,       \* SelfConnection::wait_for_message calls made
  self_value,       \* the operator input of the last call
  self_result       \* the result of the last call

VARIABLES
  echo_log          \* EchoConnection: the calls made, each with its result

tcpVars == <<wire, closed, sent, tcp_pc, message, buffer0, nreads, ncalls, tcp_returns>>
histVars == <<pub_log, relay_pub, skipped, fresh, h_return_pub>>
httpVars == <<relay, h_pc, h_name, h_other, previous_message, attempts, h_polls,
              response, h_returns, h_send, h_fault, h_get, histVars>>
selfVars == <<self_calls, self_value, self_result>>
echoVars == <<echo_log>>
vars == <<tcpVars, httpVars, selfVars, echoVars>>

InitTcp ==
  /\ wire = <<>>
  /\ closed = FALSE
  /\ sent = <<>>
  /\ tcp_pc = "idle"
  /\ message = <<>>
  /\ buffer0 = NUL
  /\ nreads = 0
  /\ ncalls = 0
  /\ tcp_returns = <<>>

InitHttp ==
  /\ relay = [n \in Names |-> NoClient]
  /\ h_pc = "unjoined"
  /\ h_name = ""
  /\ h_other = ""
  /\ previous_message = ""
  /\ attempts = 0
  /\ h_polls = 0
  /\ response = NoResponse
  /\ h_returns = <<>>
  /\ h_send = "none"
  /\ h_fault = "none"
  /\ h_get = "none"
  /\ pub_log = <<>>
  /\ relay_pub = [n \in Names |-> 0]
  /\ skipped = {}
  /\ fresh = FALSE
  /\ h_return_pub = <<>>

InitSelf ==
  /\ self_calls = 0
  /\ self_value = <<>>
  /\ self_result = [ok |-> TRUE, text |-> <<>>]

InitEcho == echo_log = <<>>

Init == InitTcp /\ InitHttp /\ InitSelf /\ InitEcho

(***************************************************************************)
(* TcpConnection                                                           *)
(***************************************************************************)
\* send_message, lines 126-143, on A: the delimiter is appended and one
\* write call is made; write may accept any non-empty prefix of the data.
\* Ok(_) is reported as true whatever the count.
TcpSendResult(data, n) == TRUE

\* Bytes handed to send_message so far, delimiters included.
RECURSIVE Offered(_)
Offered(calls) ==
  IF calls = <<>> THEN 0 ELSE calls[1].len + Offered(Tail(calls))

TcpSendOk(m, budget) ==
  /\ ~closed
  /\ Len(sent) < MaxSends
  /\ Offered(sent) + Len(m) + 2 <= budget
  /\ LET data == m \o EndOfMessage IN
     \E n \in 1..Len(data) :
       /\ wire' = wire \o SubSeq(data, 1, n)
       /\ sent' = Append(sent, [text |-> m, written |-> n, len |-> Len(data),
                                result |-> TcpSendResult(data, n)])
  /\ UNCHANGED <<closed, tcp_pc, message, buffer0, nreads, ncalls, tcp_returns>>
  /\ UNCHANGED <<httpVars, selfVars, echoVars>>

\* send_message when the write fails: the error is printed, false returned.
TcpSendErr(m, budget) ==
  /\ ~closed
  /\ Len(sent) < MaxSends
  /\ Offered(sent) + Len(m) + 2 <= budget
  /\ sent' = Append(sent, [text |-> m, written |-> 0, len |-> Len(m) + 2,
                           result |-> FALSE])
  /\ UNCHANGED <<wire, closed, tcp_pc, message, buffer0, nreads, ncalls, tcp_returns>>
  /\ UNCHANGED <<httpVars, selfVars, echoVars>>

\* A drops its connection: B's reads return 0 bytes once the wire is drained.
TcpClose ==
  /\ ~closed
  /\ closed' = TRUE
  /\ UNCHANGED <<wire, sent, tcp_pc, message, buffer0, nreads, ncalls, tcp_returns>>
  /\ UNCHANGED <<httpVars, selfVars, echoVars>>

\* A wait_for_message that kept the accumulation of the previous call.
InitialMessageKept(old) == old

\* wait_for_message, line 147: let mut message = String::new()
InitialMessage(old) == <<>>

TcpWaitBegin ==
  /\ tcp_pc = "idle"
  /\ ncalls < MaxWaits
  /\ tcp_pc' = "loop"
  /\ message' = InitialMessage(message)
  /\ nreads' = 0
  /\ ncalls' = ncalls + 1
  /\ UNCHANGED <<wire, closed, sent, buffer0, tcp_returns>>
  /\ UNCHANGED <<httpVars, selfVars, echoVars>>

\* A loop that took a lone '\r' for the delimiter.
LoopEndsOnCR(msg, b0) == Contains(msg, <<CR>>) \/ b0 = NUL

\* A loop without the break of lines 165-167.
LoopEndsOnDelimiter(msg, b0) == Contains(msg, EndOfMessage)

\* The loop ends when the while condition (line 149) is false or at the
\* break of lines 165-167.
LoopEnds(msg, b0) == Contains(msg, EndOfMessage) \/ b0 = NUL

\* One iteration, lines 150-167, with a read of n bytes (n = 0 at end of
\* stream), followed by lines 170-174 when the loop ends with it.
TcpIteration(n) ==
  LET data == SubSeq(wire, 1, n)
      buffer == FillBuffer(data)
      msg == message \o buffer
  IN /\ wire' = SubSeq(wire, n + 1, Len(wire))
     /\ message' = msg
     /\ buffer0' = buffer[1]
     /\ nreads' = nreads + 1
     /\ IF LoopEnds(msg, buffer[1])
        THEN /\ tcp_pc' = "idle"
             /\ tcp_returns' = Append(tcp_returns, Strip(msg))
        ELSE /\ tcp_pc' = "loop"
             /\ tcp_returns' = tcp_returns
     /\ UNCHANGED <<closed, sent, ncalls>>
     /\ UNCHANGED <<httpVars, selfVars, echoVars>>

TcpWaitRead ==
  /\ tcp_pc = "loop"
  /\ nreads < MaxReads
  /\ Len(wire) > 0
  /\ \E n \in 1..Min(Len(wire), BufSize) : TcpIteration(n)

TcpWaitReadEof ==
  /\ tcp_pc = "loop"
  /\ nreads < MaxReads
  /\ Len(wire) = 0
  /\ closed
  /\ TcpIteration(0)

\* Line 154: a read error panics.
TcpWaitReadErr ==
  /\ tcp_pc = "loop"
  /\ tcp_pc' = "panicked"
  /\ UNCHANGED <<wire, closed, sent, message, buffer0, nreads, ncalls, tcp_returns>>
  /\ UNCHANGED <<httpVars, selfVars, echoVars>>

\* B's side: a call of wait_for_message and its reads.
TcpReceive ==
  \/ TcpWaitBegin
  \/ TcpWaitRead
  \/ TcpWaitReadEof
  \/ TcpWaitReadErr

\* The stream pair with A sending short texts over the alphabet.
NextTcp ==
  \/ \E m \in ShortTexts : TcpSendOk(m, MaxStreamBytes)
  \/ \E m \in ShortTexts : TcpSendErr(m, MaxStreamBytes)
  \/ TcpClose
  \/ TcpReceive

SpecTcp == Init /\ [][NextTcp]_vars

\* The stream pair with A sending one move message.
NextTcpMove ==
  \/ \E m \in MoveTexts : TcpSendOk(m, MoveBytes)
  \/ \E m \in MoveTexts : TcpSendErr(m, MoveBytes)
  \/ TcpClose
  \/ TcpReceive

SpecTcpMove == Init /\ [][NextTcpMove]_vars

(***************************************************************************)
(* HttpConnection and the relay                                            *)
(***************************************************************************)
\* HttpConnection::new, lines 234-259, when the join POST is answered: the
\* relay now holds the greeting under client_name; other_player is "one".
HttpNewOk(client_name) ==
  /\ h_pc = "unjoined"
  /\ relay[client_name] = NoClient
  /\ relay' = [relay EXCEPT ![client_name] = Hello(client_name)]
  /\ h_name' = client_name
  /\ h_other' = "one"
  /\ previous_message' = ""
  /\ h_pc' = "idle"
  /\ UNCHANGED <<attempts, h_polls, response, h_returns, h_send, h_fault>>
  /\ UNCHANGED <<tcpVars, selfVars, echoVars>>
  /\ UNCHANGED <<h_get, histVars>>

\* HttpConnection::new when the join POST fails: Err is returned (line 247).
HttpNewErr ==
  /\ h_pc = "unjoined"
  /\ h_pc' = "failed"
  /\ UNCHANGED <<relay, h_name, h_other, previous_message, attempts, h_polls,
                 response, h_returns, h_send, h_fault>>
  /\ UNCHANGED <<tcpVars, selfVars, echoVars>>
  /\ UNCHANGED <<h_get, histVars>>

\* The peer is the one other client of the relay: it joins under a free
\* name and then publishes texts under it.
PeerJoin(n) ==
  /\ n # h_name
  /\ \A k \in Names \ {h_name} : relay[k] = NoClient
  /\ relay' = [relay EXCEPT ![n] = Hello(n)]
  /\ UNCHANGED <<h_pc, h_name, h_other, previous_message, attempts, h_polls,
                 response, h_returns, h_send, h_fault>>
  /\ UNCHANGED <<tcpVars, selfVars, echoVars>>
  /\ UNCHANGED <<h_get, histVars>>

PeerSend(n, p) ==
  /\ n # h_name
  /\ relay[n] # NoClient
  /\ relay' = [relay EXCEPT ![n] = p]
  /\ relay_pub' = [relay_pub EXCEPT ![n] = 0]
  /\ UNCHANGED <<h_pc, h_name, h_other, previous_message, attempts, h_polls,
                 response, h_returns, h_send, h_fault>>
  /\ UNCHANGED <<tcpVars, selfVars, echoVars>>
  /\ UNCHANGED <<h_get, pub_log, skipped, fresh, h_return_pub>>

\* A relay entry that kept the first payload published under it.
PublishedOnce(held, new, first) == IF first THEN new ELSE held

\* What the relay holds for a client after its POST of `new` to
\* clients/{name}/message (lines 265-266): the text posted.
Published(held, new, first) == new

\* The peer's send_message(p), entered in the history: publication number
\* Len(pub_log) + 1.  The publication before it is skipped when no poll
\* was made since it was published.
PeerPublish(n, p) ==
  /\ n # h_name
  /\ relay[n] # NoClient
  /\ Len(pub_log) < MaxPeerSends
  /\ relay' = [relay EXCEPT ![n] = Published(relay[n], p, relay_pub[n] = 0)]
  /\ relay_pub' = [relay_pub EXCEPT
                     ![n] = Published(relay_pub[n], Len(pub_log) + 1,
                                      relay_pub[n] = 0)]
  /\ pub_log' = Append(pub_log, p)
  /\ skipped' = IF fresh /\ pub_log # <<>>
                THEN skipped \cup {Len(pub_log)} ELSE skipped
  /\ fresh' = TRUE
  /\ UNCHANGED <<h_pc, h_name, h_other, previous_message, attempts, h_polls,
                 response, h_returns, h_send, h_fault, h_get, h_return_pub>>
  /\ UNCHANGED <<tcpVars, selfVars, echoVars>>

\* send_message, lines 263-271, when the POST is answered: true.
HttpSendOk(m) ==
  /\ h_pc = "idle"
  /\ relay' = [relay EXCEPT ![h_name] = m]
  /\ h_send' = "true"
  /\ UNCHANGED <<h_pc, h_name, h_other, previous_message, attempts, h_polls,
                 response, h_returns, h_fault>>
  /\ UNCHANGED <<tcpVars, selfVars, echoVars>>
  /\ UNCHANGED <<h_get, histVars>>

\* send_message when the POST fails: send() is Err and unwrap() panics
\* (line 268); no value is returned.
SendFailure == [pc |-> "panicked", fault |-> "send", result |-> "none"]

HttpSendErr(m) ==
  /\ h_pc = "idle"
  /\ h_pc' = SendFailure.pc
  /\ h_fault' = SendFailure.fault
  /\ h_send' = SendFailure.result
  /\ UNCHANGED <<relay, h_name, h_other, previous_message, attempts, h_polls,
                 response, h_returns>>
  /\ UNCHANGED <<tcpVars, selfVars, echoVars>>
  /\ UNCHANGED <<h_get, histVars>>

\* wait_for_message, line 274: let mut attempts = RETRY_ATTEMPTS_HTTP
HttpWaitBegin ==
  /\ h_pc = "idle"
  /\ Len(h_returns) < MaxHttpWaits
  /\ h_pc' = "poll"
  /\ attempts' = RETRY_ATTEMPTS_HTTP
  /\ h_polls' = 0
  /\ UNCHANGED <<relay, h_name, h_other, previous_message, response,
                 h_returns, h_send, h_fault>>
  /\ UNCHANGED <<tcpVars, selfVars, echoVars>>
  /\ UNCHANGED <<h_get, histVars>>

\* A poll that returned whatever the payload was.
HttpChangedAlways(payload, previous) == TRUE

\* Line 305: message != self.previous_message
HttpChanged(payload, previous) == payload # previous

\* A return that left previous_message as it was.
NextPreviousKept(payload, previous) == previous

\* Line 306: self.previous_message = message.clone()
NextPrevious(payload, previous) == payload

Panic(fault) == [kind |-> "panic", fault |-> fault, message |-> ""]

\* Lines 282-312 on the response of one poll.  A server-error status is only
\* printed (lines 282-284) and the response is then handled like any other.
PollOutcome(resp, previous) ==
  IF IsClientError(resp.status) THEN Panic("client_error")
  ELSE IF ~resp.body.json THEN Panic("bad_response")
  ELSE IF ~resp.body.has_message THEN Panic("no_message")
  ELSE IF HttpChanged(resp.body.message, previous)
       THEN [kind |-> "return", fault |-> "none", message |-> resp.body.message]
       ELSE [kind |-> "sleep", fault |-> "none", message |-> resp.body.message]

\* An attempts counter that each poll decrements.
AttemptsDecremented(n) == n - 1

\* Lines 276-313: no statement of the loop assigns or reads `attempts`.
AttemptsAfterPoll(n) == n

\* The publication of the peer that the response carries: the relay's answer
\* with the polled client's JSON carries the payload it holds for that
\* client; 0 when the payload is no logged publication of the peer.
PolledPublication(resp) ==
  IF resp.status = 200 /\ resp.body.has_message THEN relay_pub[h_other] ELSE 0

\* One iteration of the loop up to the return or the sleep.
HttpPollStep(resp) ==
  LET o == PollOutcome(resp, previous_message) IN
  /\ response' = resp
  /\ h_polls' = h_polls + 1
  /\ h_pc' = CASE o.kind = "panic" -> "panicked"
               [] o.kind = "return" -> "idle"
               [] o.kind = "sleep" -> "sleep"
  /\ h_fault' = IF o.kind = "panic" THEN o.fault ELSE h_fault
  /\ previous_message' = IF o.kind = "return"
                         THEN NextPrevious(o.message, previous_message)
                         ELSE previous_message
  /\ h_returns' = IF o.kind = "return" THEN Append(h_returns, o.message)
                  ELSE h_returns
  /\ attempts' = AttemptsAfterPoll(attempts)
  /\ h_return_pub' = IF o.kind = "return"
                     THEN Append(h_return_pub, PolledPublication(resp))
                     ELSE h_return_pub
  /\ fresh' = FALSE
  /\ UNCHANGED <<relay, h_name, h_other, h_send>>
  /\ UNCHANGED <<tcpVars, selfVars, echoVars>>
  /\ UNCHANGED <<h_get, pub_log, relay_pub, skipped>>

HttpPoll ==
  /\ h_pc = "poll"
  /\ h_polls < MaxPolls
  /\ \E resp \in PollResponses(relay[h_other]) : HttpPollStep(resp)

\* The GET itself fails: send() is Err and unwrap() panics (line 280).
HttpPollErr ==
  /\ h_pc = "poll"
  /\ h_pc' = "panicked"
  /\ h_fault' = "poll"
  /\ UNCHANGED <<relay, h_name, h_other, previous_message, attempts, h_polls,
                 response, h_returns, h_send>>
  /\ UNCHANGED <<tcpVars, selfVars, echoVars>>
  /\ UNCHANGED <<h_get, histVars>>

\* Line 312: thread::sleep, then the next iteration.
HttpSleep ==
  /\ h_pc = "sleep"
  /\ h_pc' = "poll"
  /\ UNCHANGED <<relay, h_name, h_other, previous_message, attempts, h_polls,
                 response, h_returns, h_send, h_fault>>
  /\ UNCHANGED <<tcpVars, selfVars, echoVars>>
  /\ UNCHANGED <<h_get, histVars>>

\* get_message, lines 316-318: Ok("Nothing"), without a request and without
\* a write to any field.
HttpGetResult == "Nothing"

HttpGetMessage ==
  /\ h_pc = "idle"
  /\ h_get' = HttpGetResult
  /\ UNCHANGED <<relay, h_pc, h_name, h_other, previous_message, attempts,
                 h_polls, response, h_returns, h_send, h_fault, histVars>>
  /\ UNCHANGED <<tcpVars, selfVars, echoVars>>

NextHttp ==
  \/ \E n \in Names : HttpNewOk(n)
  \/ HttpNewErr
  \/ \E n \in Names : PeerJoin(n)
  \/ \E n \in Names, p \in HttpTexts : PeerSend(n, p)
  \/ \E m \in HttpTexts : HttpSendOk(m)
  \/ \E m \in HttpTexts : HttpSendErr(m)
  \/ HttpWaitBegin
  \/ HttpPoll
  \/ HttpPollErr
  \/ HttpSleep
  \/ HttpGetMessage

SpecHttp == Init /\ [][NextHttp]_vars

\* The receiving side: the connection joins and waits while the peer joins
\* and publishes, each publication entered in the history.
NextRelay ==
  \/ \E n \in Names : HttpNewOk(n)
  \/ HttpNewErr
  \/ \E n \in Names : PeerJoin(n)
  \/ \E n \in Names, p \in HttpTexts : PeerPublish(n, p)
  \/ HttpWaitBegin
  \/ HttpPoll
  \/ HttpPollErr
  \/ HttpSleep

SpecRelay == Init /\ [][NextRelay]_vars

(***************************************************************************)
(* SelfConnection                                                          *)
(***************************************************************************)
\* Line 211: value.len() != 4, String::len being the length in bytes.
WrongLength(value) == StrLen(value) # 4

\* wait_for_message, lines 207-217, on the operator input `value`.
SelfClassify(value) ==
  IF value = ExitText
  THEN [ok |-> TRUE, text |-> MessageText("Bye")]
  ELSE IF WrongLength(value)
       THEN [ok |-> TRUE, text |-> MessageText("BadMessage")]
       ELSE [ok |-> TRUE, text |-> MessageText("MakeMove") \o <<32>> \o value]

\* wait_for_message, lines 202-218: input() supplies the operator's text.
SelfWait(value) ==
  /\ self_calls < MaxSelfCalls
  /\ self_calls' = self_calls + 1
  /\ self_value' = value
  /\ self_result' = SelfClassify(value)
  /\ UNCHANGED <<tcpVars, httpVars, echoVars>>

NextSelf == \E value \in SelfInputs : SelfWait(value)

SpecSelf == Init /\ [][NextSelf]_vars

(***************************************************************************)
(* EchoConnection                                                          *)
(***************************************************************************)
\* The text of the last send_message call in the log, empty when none.
RECURSIVE LastSent(_)
LastSent(log) ==
  IF log = <<>> THEN <<>>
  ELSE IF log[Len(log)].op = "send" THEN log[Len(log)].arg
       ELSE LastSent(SubSeq(log, 1, Len(log) - 1))

\* A wait_for_message that gave back what was sent last.
EchoWaitEchoes(log) == [ok |-> TRUE, text |-> LastSent(log)]

\* send_message, lines 50-52: true.
EchoSendResult(log, m) == TRUE

\* wait_for_message, lines 55-57: Ok("make_move e7e5")
EchoWaitResult(log) == [ok |-> TRUE, text |-> MakeMoveE7E5]

\* get_message, lines 60-62: Ok("Nothing")
EchoGetResult(log) == [ok |-> TRUE, text |-> NothingText]

\* The three calls; `log` is what was called before, which none of them reads.
EchoSend(m) ==
  /\ Len(echo_log) < MaxEchoCalls
  /\ echo_log' = Append(echo_log, [op |-> "send", arg |-> m,
                                   result |-> EchoSendResult(echo_log, m)])
  /\ UNCHANGED <<tcpVars, httpVars, selfVars>>

EchoWait ==
  /\ Len(echo_log) < MaxEchoCalls
  /\ echo_log' = Append(echo_log, [op |-> "wait", arg |-> <<>>,
                                   result |-> EchoWaitResult(echo_log)])
  /\ UNCHANGED <<tcpVars, httpVars, selfVars>>

EchoGet ==
  /\ Len(echo_log) < MaxEchoCalls
  /\ echo_log' = Append(echo_log, [op |-> "get", arg |-> <<>>,
                                   result |-> EchoGetResult(echo_log)])
  /\ UNCHANGED <<tcpVars, httpVars, selfVars>>

NextEcho ==
  \/ \E m \in EchoTexts : EchoSend(m)
  \/ EchoWait
  \/ EchoGet

SpecEcho == Init /\ [][NextEcho]_vars

(***************************************************************************)
(* Properties of the Framed Stream Channel                                 *)
(***************************************************************************)
\* A call of B's wait_for_message has returned and none is in progress.
TcpReturned == tcp_pc = "idle" /\ ncalls > 0

\* A's only send_message call so far was send_message(m), and it returned true.
SentOnce(m) == Len(sent) = 1 /\ sent[1].text = m /\ sent[1].result

\* Call k of A's send_message handed all its bytes to the stream.
FullyWritten(k) == sent[k].result /\ sent[k].written = sent[k].len

\* A text without null byte and without delimiter.
Plain(t) == ~Contains(t, <<NUL>>) /\ ~Contains(t, EndOfMessage)

\* C1: when the bytes of "make_move e2e4\r\n" reach wait_for_message in two
\* consecutive reads, whatever the split point, the call has returned after
\* the second read and the returned text is exactly "make_move e2e4".
C1_TwoReadsSuffice ==
  ( /\ SentOnce(MakeMoveE2E4) /\ FullyWritten(1)
    /\ ncalls = 1 /\ nreads = 2 /\ wire = <<>> /\ tcp_pc # "panicked" )
  => (tcp_pc = "idle" /\ tcp_returns = <<MakeMoveE2E4>>)

\* C3 (as stated): a call returns only if the accumulation buffer contained
\* the delimiter when the loop ended, and every call starts from an empty
\* accumulation buffer.
C3_ReturnOnlyOnDelimiter ==
  /\ (tcp_pc = "loop" /\ nreads = 0) => message = <<>>
  /\ TcpReturned => Contains(message, EndOfMessage)

\* C3 (amended): a call returns only if, when the loop ended, the
\* accumulation buffer contained the delimiter or the last read left the
\* first byte of the read buffer null; every call starts from an empty
\* accumulation buffer, and a call in the loop holds no delimiter yet.
C3_ReturnOnlyOnDelimiterOrNullRead ==
  /\ (tcp_pc = "loop" /\ nreads = 0) => message = <<>>
  /\ tcp_pc = "loop" => ~Contains(message, EndOfMessage)
  /\ TcpReturned =>
       /\ Len(tcp_returns) = ncalls
       /\ Contains(message, EndOfMessage) \/ buffer0 = NUL

\* C3 witness: the second call has returned at the early break without a
\* delimiter in its accumulation buffer, which holds data of that call.
C3_Witness ==
  /\ TcpReturned /\ ncalls = 2 /\ nreads = 2
  /\ buffer0 = NUL
  /\ ~Contains(message, EndOfMessage)
  /\ tcp_returns[2] # <<>>

\* The text t without the bytes that belong to an occurrence of the
\* delimiter in it.
WithoutDelimiters(t) ==
  LET InDelimiter(i) ==
        \/ i < Len(t) /\ t[i] = CR /\ t[i + 1] = LF
        \/ i > 1 /\ t[i - 1] = CR /\ t[i] = LF
      kept == SelectSeq([i \in 1..Len(t) |-> <<i, t[i]>>],
                        LAMBDA q : ~InDelimiter(q[1]))
  IN [i \in 1..Len(kept) |-> kept[i][2]]

\* C4: the text a call returns contains no null byte and no delimiter, and
\* is the accumulated text with the null bytes and the delimiters removed.
C4_StrippedClean ==
  TcpReturned /\ Len(tcp_returns) = ncalls =>
    LET r == tcp_returns[Len(tcp_returns)] IN
      /\ ~Contains(r, <<NUL>>)
      /\ ~Contains(r, EndOfMessage)
      /\ r = WithoutDelimiters(SelectSeq(message, LAMBDA b : b # NUL))

\* C5: after A's single send_message("make_move e7e5") returned true, B's
\* wait_for_message returns "make_move e7e5" once: no call returns a
\* fragment of it, it is not returned twice, and B is not left waiting once
\* its reads have taken every byte A's call was given.
C5_DeliveredExactlyOnce ==
  SentOnce(MakeMoveE7E5) =>
    /\ \A i \in DOMAIN tcp_returns : tcp_returns[i] \in {MakeMoveE7E5, <<>>}
    /\ Cardinality({i \in DOMAIN tcp_returns : tcp_returns[i] = MakeMoveE7E5}) <= 1
    /\ (FullyWritten(1) /\ wire = <<>> /\ ncalls > 0 /\ tcp_pc # "panicked")
         => \E i \in DOMAIN tcp_returns : tcp_returns[i] = MakeMoveE7E5

\* C6: after send_message(m1) and send_message(m2) with plain texts, the
\* first call of wait_for_message that returns has returned m1 and the
\* second has returned m2, however the bytes were grouped into reads.
C6_InOrderOnePerCall ==
  ( /\ Len(sent) = 2
    /\ \A k \in 1..2 : FullyWritten(k) /\ Plain(sent[k].text) )
  => \A i \in 1..Min(2, Len(tcp_returns)) : tcp_returns[i] = sent[i].text

C18_TrueMeansAllWritten ==
  \A k \in DOMAIN sent : sent[k].result => sent[k].written = sent[k].len

(***************************************************************************)
(* Properties of the Polling Relay Channel                                 *)
(***************************************************************************)
\* The step is one poll of wait_for_message.
IsPoll == h_pc = "poll" /\ h_polls' = h_polls + 1

\* The response of the poll just made carried a payload text.
PolledPayload(resp) ==
  ~IsClientError(resp.status) /\ resp.body.json /\ resp.body.has_message

\* C2: two consecutive returns of wait_for_message never carry the same
\* payload, the first return differs from the initial previous_message "",
\* and previous_message is the payload delivered last.
C2_NoRepeatedReturn ==
  /\ \A i \in 1..(Len(h_returns) - 1) : h_returns[i] # h_returns[i + 1]
  /\ h_returns # <<>> => h_returns[1] # ""
  /\ previous_message =
       IF h_returns = <<>> THEN "" ELSE h_returns[Len(h_returns)]

\* C2 witness: three returns, the third carrying the first one's payload
\* again after a different one, the last call having slept on an unchanged
\* payload before.
C2_Witness ==
  /\ Len(h_returns) = 3
  /\ h_returns[1] = h_returns[3]
  /\ h_polls >= 2
  /\ h_pc = "idle"

\* C7: in a call, a poll whose payload equals previous_message changes
\* neither previous_message nor the returns and leads to the sleep, after
\* which the call polls again; a poll whose payload differs returns it in
\* that iteration and makes it previous_message.
C7_PollSleepsOrReturns ==
  /\ [][ (IsPoll /\ PolledPayload(response')) =>
           IF response'.body.message = previous_message
           THEN /\ previous_message' = previous_message
                /\ h_returns' = h_returns
                /\ h_pc' = "sleep"
           ELSE /\ previous_message' = response'.body.message
                /\ h_returns' = Append(h_returns, response'.body.message)
                /\ h_pc' = "idle" ]_vars
  /\ [][ h_pc = "sleep" =>
           \/ h_pc' = "poll" /\ h_returns' = h_returns
                             /\ previous_message' = previous_message
           \/ UNCHANGED <<h_pc, h_polls, h_returns, previous_message>> ]_vars

\* C7 witness: a call that polled an unchanged payload, slept, polled again
\* and returned the changed payload, now previous_message.
C7_Witness ==
  /\ h_pc = "idle"
  /\ h_polls >= 2
  /\ Len(h_returns) >= 2
  /\ PolledPayload(response)
  /\ response.body.message = previous_message
  /\ h_returns[Len(h_returns)] = previous_message

\* C8: a poll answered with a server-error status makes the call poll again
\* (through the sleep): the call does not abort, nothing is returned and
\* previous_message stays as it was.
C8_ServerErrorRetried ==
  [][ (IsPoll /\ IsServerError(response'.status)) =>
        /\ h_pc' \in {"sleep", "poll"}
        /\ h_fault' = h_fault
        /\ h_returns' = h_returns
        /\ previous_message' = previous_message ]_vars

\* C9: a send_message whose transport write failed has returned false and
\* has not panicked, on the relay backend and on the stream backend.
C9_WriteFailureReturnsFalse ==
  /\ h_fault = "send" => (h_send = "false" /\ h_pc # "panicked")
  /\ \A k \in DOMAIN sent : sent[k].written = 0 => ~sent[k].result

\* C12: get_message returns the empty text whatever was sent and waited for
\* before, makes no request to the relay (no poll is counted, no response
\* is received, the relay's state is as before) and leaves name,
\* other_player and previous_message as they were.
C12_GetMessageEmptyNoEffect ==
  [][ h_get' # h_get =>
        /\ h_get' = ""
        /\ UNCHANGED <<relay, h_polls, response, h_pc, h_fault>>
        /\ UNCHANGED <<h_name, h_other, previous_message>> ]_vars

\* C13: a publication of the peer that the peer replaced by a different
\* payload before any poll was made is never the publication a return of
\* wait_for_message carries.
C13_SkippedNeverReturned ==
  \A k \in DOMAIN h_return_pub :
    ~( /\ h_return_pub[k] \in skipped
       /\ h_return_pub[k] < Len(pub_log)
       /\ pub_log[h_return_pub[k]] # pub_log[h_return_pub[k] + 1] )

\* C13 witness: the peer published "a" and then "b" with no poll between,
\* and a later wait_for_message returned the second publication.
C13_Witness ==
  /\ pub_log = <<"a", "b">>
  /\ skipped = {1}
  /\ h_returns # <<>>
  /\ h_return_pub[Len(h_return_pub)] = 2
  /\ h_returns[Len(h_returns)] = "b"

\* C14: the loop has no iteration cap.  A poll whose payload equals
\* previous_message leads to the sleep and the next poll whatever the number
\* of polls made, and the local `attempts` keeps the value
\* RETRY_ATTEMPTS_HTTP all through the call.
C14_NoIterationCap ==
  /\ [](h_pc \in {"poll", "sleep"} => attempts = RETRY_ATTEMPTS_HTTP)
  /\ [][ (IsPoll /\ PolledPayload(response')
                 /\ response'.body.message = previous_message) =>
            /\ h_pc' = "sleep"
            /\ attempts' = attempts
            /\ h_returns' = h_returns ]_vars
  /\ [][ (h_pc = "sleep" /\ h_pc' # "sleep") =>
            (h_pc' = "poll" /\ h_polls' = h_polls) ]_vars

\* C14 witness: the call sleeps after its sixth poll, one more than
\* RETRY_ATTEMPTS_HTTP, on an unchanged payload.
C14_Witness ==
  /\ h_pc = "sleep"
  /\ h_polls = RETRY_ATTEMPTS_HTTP + 1
  /\ response.status = 200
  /\ PolledPayload(response)
  /\ response.body.message = previous_message

\* C15: a poll answered with a client-error status ends the call at that
\* poll with a panic: nothing is returned, previous_message is not written
\* and the panicked connection polls no more.
C15_ClientErrorAborts ==
  /\ [][ (IsPoll /\ response'.status \in 400..499) =>
            /\ h_pc' = "panicked"
            /\ h_fault' = "client_error"
            /\ h_returns' = h_returns
            /\ previous_message' = previous_message ]_vars
  /\ [][ h_pc = "panicked" =>
            UNCHANGED <<h_pc, h_polls, response, h_returns,
                        previous_message>> ]_vars

\* C15 witness: the second poll of a call was answered 404 with a body that
\* carries a payload other than previous_message.
C15_Witness ==
  /\ h_pc = "panicked"
  /\ h_fault = "client_error"
  /\ h_polls >= 2
  /\ response = [status |-> 404, body |-> ClientBody("a")]
  /\ previous_message = "b"

\* C17: a connection polls the peer's identity and never its own name.
C17_PollsPeerNotSelf ==
  h_pc \notin {"unjoined", "failed"} => h_other # h_name

\* The publications that returns of wait_for_message carried.
ReturnedPublications == {h_return_pub[k] : k \in DOMAIN h_return_pub}

\* The peer's current publication has not been returned yet.
Pending(n) == relay_pub[n] > 0 /\ relay_pub[n] \notin ReturnedPublications

\* C19: a successful poll made while a publication of the peer is in place
\* and not yet returned returns that publication, whatever its text.
C19_PendingPublicationReturned ==
  [][ \A n \in Names \ {h_name} :
        ( /\ IsPoll /\ Pending(n)
          /\ response'.status = 200 /\ response'.body.json ) =>
          /\ h_returns' = Append(h_returns, relay[n])
          /\ h_return_pub' = Append(h_return_pub, relay_pub[n]) ]_vars

\* C20: every value wait_for_message returned is a publication of the peer
\* (a text the peer handed to send_message), and none is a greeting.
C20_ReturnsArePeerPublications ==
  \A k \in DOMAIN h_returns :
    /\ h_return_pub[k] > 0
    /\ h_returns[k] = pub_log[h_return_pub[k]]
    /\ h_returns[k] \notin {Hello(n) : n \in Names}

(***************************************************************************)
(* Properties of the Local Stand-in Channel                                *)
(***************************************************************************)
\* C10: the result is Ok; it is Bye for "exit", else BadMessage when the
\* number of characters of the input is not 4, else MakeMove, a space and
\* the input.
C10_ClassifiedByCharacters ==
  self_calls > 0 =>
    self_result =
      [ok |-> TRUE,
       text |-> IF self_value = ExitText THEN MessageText("Bye")
                ELSE IF Len(self_value) # 4 THEN MessageText("BadMessage")
                ELSE MessageText("MakeMove") \o <<32>> \o self_value]

(***************************************************************************)
(* Properties of the Echo Channel                                          *)
(***************************************************************************)
\* C11: after any interleaving of send_message, wait_for_message and
\* get_message calls with any arguments, every send_message returned true,
\* every wait_for_message returned Ok("make_move e7e5") and every
\* get_message returned the same fixed placeholder, whatever came before.
C11_EchoResultsFixed ==
  \A i \in DOMAIN echo_log :
    echo_log[i].result =
      CASE echo_log[i].op = "send" -> TRUE
        [] echo_log[i].op = "wait" -> [ok |-> TRUE, text |-> MakeMoveE7E5]
        [] echo_log[i].op = "get" -> [ok |-> TRUE, text |-> NothingText]

\* C11 witness: a send_message of another move, then a wait_for_message,
\* then a get_message.
C11_Witness ==
  /\ Len(echo_log) = 3
  /\ echo_log[1].op = "send" /\ echo_log[1].arg = MakeMoveE2E4
  /\ echo_log[2].op = "wait"
  /\ echo_log[3].op = "get"

====
